---------------------------- MODULE Spec2Model ----------------------------
(***************************************************************************)
(* State-machine model of packages/determiner: the extractors (uint8 ..    *)
(* uint64), the rejection sampler (integerLessThan / integer), the         *)
(* alphabet formatter (format), the pattern composer (pattern),            *)
(* uniquePatterns and batchedRandomSource; and of packages/singleflight:   *)
(* SingleFlightGroup.run and wait; and of packages/marline: start and     *)
(* stop of Marline instances.                                              *)
(*                                                                         *)
(* A JavaScript string is a sequence of one-character strings.  A byte     *)
(* source is an arbitrary function of the requested length: every call     *)
(* returns that many bytes, each chosen freely from the set of byte values *)
(* the source can produce (srcBytes).  A 32-bit unsigned number is held as *)
(* two 16-bit limbs [hi, lo], so that no value computed exceeds 2^31 - 1.  *)
(***************************************************************************)
EXTENDS Integers, Sequences, FiniteSets, TLC

VARIABLES
    srcBytes,   \* the byte values the source can produce
    call,       \* the top-level call and its arguments
    pc,         \* the program point
    calls,      \* number of source calls made so far (saturates at MaxCalls)
    rs,         \* frame of rejectionSampling: range, i, sample, draws
    fmt,        \* frame of format: alphabet, size, mask, step, bytes, i, id, ret
    pat,        \* frame of pattern: len, patterns, buf, k, result, ret
    uniq,       \* frame of uniquePatterns: existingMap, map, p
    result,     \* the value returned by the top-level call
    src,        \* the byte source: mode, cycle, pos, pre, err
    first,      \* outcome of the first of two calls on equal byte streams
    ux,         \* frame of uint8 / uint16 / uint32 / uint64: w, bytes
    bat,        \* a batchedRandomSource instance and its caller
    sf,         \* a SingleFlightGroup and the run calls made on it
    mar         \* the Marline instances and the module's activeMarline

vars ==
    <<srcBytes, call, pc, calls, rs, fmt, pat, uniq, result, src, first, ux,
      bat, sf, mar>>

\* what the actions of the determiner core never touch
outside == <<first, ux, bat, sf, mar>>

\* the state of a call of the determiner core
core == <<srcBytes, call, pc, calls, rs, fmt, pat, uniq, result, first, ux>>

---------------------------------------------------------------------------
(* Bounds of the model.                                                    *)

\* the source-call counter saturates here
MaxCalls == 3
\* largest requested size of a top-level format call
MaxSize == 2
\* largest requested length of a top-level pattern call
MaxLen == 3
\* largest requested length of a uniquePatterns call
MaxUniqLen == 2
\* largest requested count of a uniquePatterns call
MaxCount == 2
\* integer(min, max) is called with min, max in 0..MaxInt
MaxInt == 3
\* a byte stream delivers at most this many bytes to one call
MaxTape == 24
\* requests made to one batched source
MaxRequests == 3
\* run calls made on one SingleFlightGroup
MaxRuns == 3
\* wait calls made on one SingleFlightGroup
MaxWaits == 1
\* run calls made on a SingleFlightGroup that also gets wait calls
MaxWaitRuns == 2
\* Marline instances constructed
MaxInstances == 2
\* start and stop calls made on the Marline instances
MaxMarlineCalls == 4
\* the longest alphabet whose mask is computed
MaxAlphabet == 256

---------------------------------------------------------------------------
(* Values.                                                                 *)

\* alphabet[k] beyond the end of the string
undefined == "undefined"

\* the values a top-level call returns: nothing yet, a number, NaN, a
\* string, an array of strings
NoResult == [t |-> "none"]
Num(n) == [t |-> "number", v |-> n]
NaN == [t |-> "NaN"]
StringOf(s) == [t |-> "string", v |-> s]
ArrayOf(a) == [t |-> "array", v |-> a]

\* an optional argument: omitted, or given with a value
Omitted == [given |-> FALSE]
Given(x) == [given |-> TRUE, v |-> x]

NoFrame == [none |-> TRUE]

Range(s) == {s[x] : x \in DOMAIN s}

Min(a, b) == IF a < b THEN a ELSE b

\* one more source call
Bump(n) == Min(n + 1, MaxCalls)

\* the failure of a source call: none, or the error e it raised
NoErr == [raised |-> FALSE]
Raised(e) == [raised |-> TRUE, e |-> e]

\* the outcome of a call that ended by throwing e
Thrown(e) == [t |-> "thrown", e |-> e]

\* a source that may return any bytes of srcBytes at every call, in a
\* Uint8Array that lies behind the bytes pre in its ArrayBuffer (a fresh
\* array has pre = <<>>, a subarray of a larger buffer has not)
ViewSource(pre) ==
    [mode |-> "free", cycle |-> <<>>, pos |-> 0, pre |-> pre, err |-> NoErr]

\* a source that returns fresh arrays
FreeSource == ViewSource(<<>>)

\* a source that delivers the repeating byte sequence cycle, pos bytes of
\* which have been consumed
StreamSource(cycle, pre) ==
    [mode |-> "stream", cycle |-> cycle, pos |-> 0, pre |-> pre,
     err |-> NoErr]

\* source(n).buffer: the whole ArrayBuffer behind the returned array b
BufferOf(b) == src.pre \o b

\* the p-th byte of the stream, p >= 1
StreamByte(p) == src.cycle[((p - 1) % Len(src.cycle)) + 1]

\* the n bytes of the stream that follow the next off bytes
BatchAt(off, n) == [k \in 1..n |-> StreamByte(src.pos + off + k)]

\* every byte array of length n the source can return now
Batches(n) ==
    IF src.mode = "stream"
      THEN IF src.pos + n <= MaxTape THEN {BatchAt(0, n)} ELSE {}
      ELSE [1..n -> srcBytes]

\* the source after a call that returned n bytes
Consumed(n) ==
    IF src.mode = "stream" THEN [src EXCEPT !.pos = src.pos + n] ELSE src

---------------------------------------------------------------------------
(* 32-bit numbers (uint32, maxUInt32, the sampler's arithmetic).           *)

Half == 65536

\* DataView.getUint32(0): the first four bytes of the buffer, big-endian
U32Of(b) == [hi |-> b[1] * 256 + b[2], lo |-> b[3] * 256 + b[4]]

U32Less(a, b) == a.hi < b.hi \/ (a.hi = b.hi /\ a.lo < b.lo)

\* maxUInt32 % range for 1 <= range < 2^15, maxUInt32 = Half * Half
MaxUInt32Mod(range) == ((Half % range) * (Half % range)) % range

\* the magnitude of a range
Abs(range) == IF range < 0 THEN 0 - range ELSE range

\* a limit computed from the largest 32-bit value, 2^32 - 1, instead of 2^32
LimitOfMaxValue(range) ==
    LET m  == Abs(range)
        r1 == (MaxUInt32Mod(m) + m - 1) % m
    IN  IF range < 0 THEN [hi |-> Half, lo |-> m - 1 - r1]
                     ELSE [hi |-> Half - 1, lo |-> Half - 1 - r1]

\* Math.floor(maxUInt32 / range) * range for range # 0: for range >= 1 it is
\* maxUInt32 - maxUInt32 % range; for range <= -1 the quotient is rounded
\* away from zero, so the product is maxUInt32 or more
Limit(range) ==
    LET r0 == MaxUInt32Mod(Abs(range))
    IN  IF range < 0
          THEN [hi |-> Half, lo |-> IF r0 = 0 THEN 0 ELSE Abs(range) - r0]
          ELSE IF r0 = 0 THEN [hi |-> Half, lo |-> 0]
                         ELSE [hi |-> Half - 1, lo |-> Half - r0]

\* sample % range for 1 <= |range| < 2^15: the remainder has the sign of the
\* sample, so only the magnitude of range counts
U32Mod(s, range) ==
    LET m == Abs(range)
    IN  ((s.hi % m) * (Half % m) + s.lo) % m

maxIntegerIter == 100

---------------------------------------------------------------------------
(* uint8, uint16, uint32, uint64: new DataView(source(w).buffer).getUintN(0) *)
(* reads the first w bytes of the ArrayBuffer behind the returned array.   *)

\* a bigint below 2^64, as four 16-bit limbs, the most significant first
BigInt(limbs) == [t |-> "bigint", v |-> limbs]

\* a number below 2^32, as two 16-bit limbs
Num32(u) == [t |-> "uint32", v |-> u]

\* DataView.getUint8(0)
GetUint8(buf) == buf[1]

\* DataView.getUint16(0): big-endian
GetUint16(buf) == buf[1] * 256 + buf[2]

\* DataView.getBigUint64(0): big-endian
GetBigUint64(buf) ==
    <<buf[1] * 256 + buf[2], buf[3] * 256 + buf[4],
      buf[5] * 256 + buf[6], buf[7] * 256 + buf[8]>>

\* the common part of the four extractors: one call source(w), the frame
\* keeps the returned array
DrawUint(w, b) ==
    /\ pc = "start"
    /\ ux' = [w |-> w, bytes |-> b]
    /\ calls' = Bump(calls)
    /\ src' = Consumed(w)
    /\ pc' = "done"
    /\ UNCHANGED <<first, bat, sf, mar, srcBytes, call, rs, fmt, pat, uniq>>

uint8 ==
    /\ call.op = "uint8"
    /\ \E b \in Batches(1) :
         /\ DrawUint(1, b)
         /\ result' = Num(GetUint8(BufferOf(b)))

uint16 ==
    /\ call.op = "uint16"
    /\ \E b \in Batches(2) :
         /\ DrawUint(2, b)
         /\ result' = Num(GetUint16(BufferOf(b)))

uint32 ==
    /\ call.op = "uint32"
    /\ \E b \in Batches(4) :
         /\ DrawUint(4, b)
         /\ result' = Num32(U32Of(BufferOf(b)))

uint64 ==
    /\ call.op = "uint64"
    /\ \E b \in Batches(8) :
         /\ DrawUint(8, b)
         /\ result' = BigInt(GetBigUint64(BufferOf(b)))

---------------------------------------------------------------------------
(* rejectionSampling, integerLessThan, integer.                            *)

\* a sampler that also accepts the draw equal to the limit
RsRejectedAboveLimit(sample, range) ==
    IF range = 0 THEN TRUE
    ELSE ~(U32Less(sample, Limit(range)) \/ sample = Limit(range))

\* the do-while condition: !(sample < Math.floor(maxUInt32 / range) * range);
\* with range = 0 the limit is Infinity * 0 = NaN and no sample is below it
RsRejected(sample, range) ==
    IF range = 0 THEN TRUE ELSE ~U32Less(sample, Limit(range))

\* a sampler that keeps the low 16 bits of every draw only
RsSampleLowHalf(sample) == [hi |-> 0, lo |-> sample.lo]

\* sample = uint32(source) assigns the value of every draw
RsSample(sample) == sample

\* a sampler whose fallback at the cap returns the raw draw
RsCoerceRawFallback(sample, range) ==
    IF ~U32Less(sample, Limit(range)) THEN sample.lo ELSE U32Mod(sample, range)

\* const unsafeCoerced = sample % range
RsCoerce(sample, range) == U32Mod(sample, range)

\* integerLessThan(source, range): rejectionSampling(source, Math.ceil(range))
EnterRejectionSampling(range) ==
    rs' = [range |-> range, i |-> 0, draws |-> 0]

CallIntegerLessThan ==
    /\ pc = "start"
    /\ call.op = "integerLessThan"
    /\ EnterRejectionSampling(call.range)
    /\ pc' = "rs_draw"
    /\ UNCHANGED <<src, outside, srcBytes, call, calls, fmt, pat, uniq, result>>

\* the range integer() hands to integerLessThan: h - l + 1
IntegerRange(l, h) == h - l + 1

\* an integer() that clamps an inverted interval instead of refusing it
CallIntegerClamped ==
    /\ pc = "start"
    /\ call.op = "integer"
    /\ IF call.min <= call.max
         THEN /\ EnterRejectionSampling(IntegerRange(call.min, call.max))
              /\ pc' = "rs_draw"
              /\ UNCHANGED result
         ELSE /\ result' = Num(call.max)
              /\ pc' = "done"
              /\ UNCHANGED rs
    /\ UNCHANGED <<src, outside, srcBytes, call, calls, fmt, pat, uniq>>

\* integer(source, min, max) for integers min, max: l = Math.ceil(min) = min,
\* h = Math.floor(max) = max
CallInteger ==
    /\ pc = "start"
    /\ call.op = "integer"
    /\ IF call.min <= call.max
         THEN /\ EnterRejectionSampling(IntegerRange(call.min, call.max))
              /\ pc' = "rs_draw"
              /\ UNCHANGED result
         ELSE /\ result' = NaN
              /\ pc' = "done"
              /\ UNCHANGED rs
    /\ UNCHANGED <<src, outside, srcBytes, call, calls, fmt, pat, uniq>>

\* one iteration of the do-while loop: draw, break at the cap, count, test;
\* bytes is the array the source returned for this draw
RsDraw ==
    /\ pc = "rs_draw"
    /\ \E b \in Batches(4) :
         LET sample == U32Of(BufferOf(b))
         IN  IF rs.i >= maxIntegerIter
               THEN /\ rs' = [range |-> rs.range, i |-> rs.i,
                            sample |-> RsSample(sample), bytes |-> b,
                            draws |-> rs.draws + 1]
                    /\ pc' = "rs_return"
               ELSE /\ rs' = [range |-> rs.range, i |-> rs.i + 1,
                            sample |-> RsSample(sample), bytes |-> b,
                            draws |-> rs.draws + 1]
                    /\ pc' = IF RsRejected(sample, rs.range)
                               THEN "rs_draw" ELSE "rs_return"
    /\ calls' = Bump(calls)
    /\ src' = Consumed(4)
    /\ UNCHANGED <<outside, srcBytes, call, fmt, pat, uniq, result>>

\* an integer() that forgets the offset l
IntegerResultNoOffset(l, v) == v

\* what integer() returns from the sampled value: l + integerLessThan(...)
IntegerResult(l, v) == l + v

\* return unsafeCoerced; sample % 0 is NaN
RsReturn ==
    /\ pc = "rs_return"
    /\ LET v == RsCoerce(rs.sample, rs.range)
       IN  result' = IF rs.range = 0 THEN NaN
                     ELSE IF call.op = "integer"
                       THEN Num(IntegerResult(call.min, v)) ELSE Num(v)
    /\ pc' = "done"
    /\ UNCHANGED <<src, outside, srcBytes, call, calls, rs, fmt, pat, uniq>>

---------------------------------------------------------------------------
(* format: the alphabet formatter.                                         *)

RECURSIVE BitAnd(_, _)
\* a & b for a, b >= 0
BitAnd(a, b) ==
    IF a = 0 \/ b = 0 THEN 0
    ELSE (a % 2) * (b % 2) + 2 * BitAnd(a \div 2, b \div 2)

RECURSIVE BitLen(_)
\* number of significant bits of x >= 0
BitLen(x) == IF x = 0 THEN 0 ELSE 1 + BitLen(x \div 2)

\* Math.clz32(x) for 0 <= x < 2^32
Clz32(x) == 32 - BitLen(x)

\* x | 1 for x >= 0
Or1(x) == IF x % 2 = 0 THEN x + 1 ELSE x

RECURSIVE Pow2(_)
Pow2(n) == IF n = 0 THEN 1 ELSE 2 * Pow2(n - 1)

\* 2 << n for 0 <= n <= 28 (no 32-bit wrap in that range)
Shl2(n) == 2 * Pow2(n)

\* a mask computed from the length instead of the largest index
MaskOfLength(length) == Shl2(31 - Clz32(Or1(length))) - 1

\* const mask = (2 << 31 - Math.clz32((alphabet.length - 1) | 1)) - 1
Mask(length) == Shl2(31 - Clz32(Or1(length - 1))) - 1

\* Math.ceil(1.6 * mask * size / alphabet.length); the exact quotient and the
\* double-precision one have the same ceiling for size <= 4, length <= 4
Step(mask, size, length) ==
    (16 * mask * size + 10 * length - 1) \div (10 * length)

\* alphabet[k]: undefined beyond the end of the string
CharAt(alphabet, k) ==
    IF k < Len(alphabet) THEN alphabet[k + 1] ELSE undefined

\* id += alphabet[...] without the || "": undefined is appended as text
OrEmptyMissing(c) == <<c>>

\* c || "": the characters appended to id
OrEmpty(c) == IF c = undefined THEN <<>> ELSE <<c>>

\* entry of format(random, alphabet, size): mask, step, id = ""
EnterFormat(alphabet, size, ret) ==
    fmt' = [alphabet |-> alphabet, size |-> size,
            mask |-> Mask(Len(alphabet)),
            step |-> Step(Mask(Len(alphabet)), size, Len(alphabet)),
            bytes |-> <<>>, i |-> 0, id |-> <<>>, ret |-> ret]

\* const bytes = random(step); let i = step
FormatDraw ==
    /\ pc = "fmt_draw"
    /\ \E b \in Batches(fmt.step) :
         fmt' = [fmt EXCEPT !.bytes = b, !.i = fmt.step]
    /\ calls' = Bump(calls)
    /\ src' = Consumed(fmt.step)
    /\ pc' = "fmt_scan"
    /\ UNCHANGED <<outside, srcBytes, call, rs, pat, uniq, result>>

\* while (i--) { id += alphabet[bytes[i] & mask] || ""; if (id.length === +size) return id }
FormatScan ==
    /\ pc = "fmt_scan"
    /\ IF fmt.i = 0
         THEN /\ fmt' = [fmt EXCEPT !.i = -1]
              /\ pc' = "fmt_draw"
         ELSE LET i  == fmt.i - 1
                  id == fmt.id \o
                        OrEmpty(CharAt(fmt.alphabet,
                                       BitAnd(fmt.bytes[i + 1], fmt.mask)))
              IN  /\ fmt' = [fmt EXCEPT !.i = i, !.id = id]
                  /\ pc' = IF Len(id) = fmt.size THEN fmt.ret ELSE "fmt_scan"
    /\ UNCHANGED <<src, outside, srcBytes, call, calls, rs, pat, uniq, result>>

CallFormat ==
    /\ pc = "start"
    /\ call.op = "format"
    /\ EnterFormat(call.alphabet, call.size, "top_fmt_ret")
    /\ pc' = "fmt_draw"
    /\ UNCHANGED <<src, outside, srcBytes, call, calls, rs, pat, uniq, result>>

TopFormatRet ==
    /\ pc = "top_fmt_ret"
    /\ result' = StringOf(fmt.id)
    /\ fmt' = NoFrame
    /\ pc' = "done"
    /\ UNCHANGED <<src, outside, srcBytes, call, calls, rs, pat, uniq>>

---------------------------------------------------------------------------
(* pattern: the multi-alphabet composer.  The argument patterns is either  *)
(* a string, [kind |-> "string", v |-> alphabet], or a list of strings,    *)
(* [kind |-> "list", v |-> <<alphabet, ...>>].                             *)

RECURSIVE Join(_)
\* patterns.join("")
Join(list) == IF list = <<>> THEN <<>> ELSE Head(list) \o Join(Tail(list))

\* the sort comparator (a, b) => randoms[a] - randoms[b] under a stable sort:
\* position a comes before position b
SortsBefore(randoms, a, b) ==
    \/ U32Less(randoms[a], randoms[b])
    \/ (randoms[a] = randoms[b] /\ a < b)

RECURSIVE SortInsert(_, _, _)
\* position a, larger than every position of s, put in its place in s
SortInsert(s, a, randoms) ==
    IF s = <<>> THEN <<a>>
    ELSE IF SortsBefore(randoms, a, Head(s)) THEN <<a>> \o s
    ELSE <<Head(s)>> \o SortInsert(Tail(s), a, randoms)

RECURSIVE SortPrefix(_, _)
\* the positions 1..n in sorted order
SortPrefix(n, randoms) ==
    IF n = 0 THEN <<>> ELSE SortInsert(SortPrefix(n - 1, randoms), n, randoms)

\* positions.sort((a, b) => randoms[a] - randoms[b]): the sort is stable
SortedPositions(randoms) == SortPrefix(Len(randoms), randoms)

\* a shuffle that picks the character of every position by its own draw
SortedCharsWithReplacement(chars, randoms) ==
    [x \in 1..Len(chars) |-> chars[(randoms[x].lo % Len(chars)) + 1]]

\* sortedPositions.map((i) => chars[i]).join("")
SortedChars(chars, randoms) ==
    LET s == SortedPositions(randoms)
    IN  [x \in 1..Len(chars) |-> chars[s[x]]]

\* a short branch that draws from the first sub-alphabet only
ShortAlphabetFirst(patterns) == Head(patterns)

\* patterns.join("") of the branch len < patterns.length
ShortAlphabet(patterns) == Join(patterns)

\* entry of pattern(random, len, patterns)
EnterPattern(len, patterns, ret) ==
    pat' = [len |-> len, patterns |-> patterns, buf |-> <<>>, k |-> 1,
            result |-> <<>>, ret |-> ret]

\* the branches of pattern: string, len < patterns.length, or the guaranteed
\* characters followed by the shuffle
PatternStart ==
    /\ pc = "pat_start"
    /\ IF pat.patterns.kind = "string"
         THEN /\ EnterFormat(pat.patterns.v, pat.len, "pat_tail")
              /\ pc' = "fmt_draw"
         ELSE IF pat.len < Len(pat.patterns.v)
                THEN /\ EnterFormat(ShortAlphabet(pat.patterns.v), pat.len,
                                    "pat_tail")
                     /\ pc' = "fmt_draw"
                ELSE /\ pc' = "pat_sub"
                     /\ UNCHANGED fmt
    /\ UNCHANGED <<src, outside, srcBytes, call, calls, rs, pat, uniq, result>>

\* return format(...) of the first two branches
PatternTail ==
    /\ pc = "pat_tail"
    /\ pat' = [pat EXCEPT !.result = fmt.id]
    /\ fmt' = NoFrame
    /\ pc' = pat.ret
    /\ UNCHANGED <<src, outside, srcBytes, call, calls, rs, uniq, result>>

\* a composer that draws every character from the flattened alphabet
SubPatternFlat(patterns, k) == Join(patterns)

\* the sub-alphabet whose guaranteed character the k-th iteration draws
SubPattern(patterns, k) == patterns[k]

\* a composer that forgets the guaranteed characters in the remainder
RestSizeFull(len, n) == len

\* the size of the remainder drawn from the flattened alphabet
RestSize(len, n) == len - n

\* for (const subpattern of patterns) format(random, subpattern, 1), then
\* format(random, patterns.join(""), len - patterns.length)
PatternSub ==
    /\ pc = "pat_sub"
    /\ IF pat.k <= Len(pat.patterns.v)
         THEN EnterFormat(SubPattern(pat.patterns.v, pat.k), 1, "pat_sub_ret")
         ELSE EnterFormat(Join(pat.patterns.v),
                          RestSize(pat.len, Len(pat.patterns.v)),
                          "pat_rest_ret")
    /\ pc' = "fmt_draw"
    /\ UNCHANGED <<src, outside, srcBytes, call, calls, rs, pat, uniq, result>>

\* buf += format(random, subpattern, 1)
PatternSubRet ==
    /\ pc = "pat_sub_ret"
    /\ pat' = [pat EXCEPT !.buf = pat.buf \o fmt.id, !.k = pat.k + 1]
    /\ fmt' = NoFrame
    /\ pc' = "pat_sub"
    /\ UNCHANGED <<src, outside, srcBytes, call, calls, rs, uniq, result>>

\* buf += format(random, patterns.join(""), len - patterns.length)
PatternRestRet ==
    /\ pc = "pat_rest_ret"
    /\ pat' = [pat EXCEPT !.buf = pat.buf \o fmt.id]
    /\ fmt' = NoFrame
    /\ pc' = "pat_shuffle"
    /\ UNCHANGED <<src, outside, srcBytes, call, calls, rs, uniq, result>>

\* every sequence of n consecutive 4-byte draws
DrawsOf(n) ==
    IF src.mode = "stream"
      THEN IF src.pos + 4 * n <= MaxTape
             THEN {[x \in 1..n |-> BatchAt(4 * (x - 1), 4)]} ELSE {}
      ELSE [1..n -> Batches(4)]

\* every value of randoms = positions.map(() => uint32(random))
RandomsOf(n) == {[x \in 1..n |-> U32Of(BufferOf(d[x]))] : d \in DrawsOf(n)}

\* chars = buf.split(""), one uint32 draw per position, the sort and the join
PatternShuffle ==
    /\ pc = "pat_shuffle"
    /\ \E randoms \in RandomsOf(Len(pat.buf)) :
         pat' = [pat EXCEPT !.result = SortedChars(pat.buf, randoms)]
    /\ calls' = Min(calls + Len(pat.buf), MaxCalls)
    /\ src' = Consumed(4 * Len(pat.buf))
    /\ pc' = pat.ret
    /\ UNCHANGED <<outside, srcBytes, call, rs, fmt, uniq, result>>

CallPattern ==
    /\ pc = "start"
    /\ call.op = "pattern"
    /\ EnterPattern(call.len, call.patterns, "top_pat_ret")
    /\ pc' = "pat_start"
    /\ UNCHANGED <<src, outside, srcBytes, call, calls, rs, fmt, uniq, result>>

TopPatternRet ==
    /\ pc = "top_pat_ret"
    /\ result' = StringOf(pat.result)
    /\ pat' = NoFrame
    /\ pc' = "done"
    /\ UNCHANGED <<src, outside, srcBytes, call, calls, rs, fmt, uniq>>

---------------------------------------------------------------------------
(* uniquePatterns.  A Set is held as the sequence of its members in        *)
(* insertion order.                                                        *)

\* an accumulator that is a list instead of a Set
ListAdd(set, x) == Append(set, x)

\* a set that iterates the newest key first
SetAddFront(set, x) == IF x \in Range(set) THEN set ELSE <<x>> \o set

\* Set.prototype.add
SetAdd(set, x) == IF x \in Range(set) THEN set ELSE Append(set, x)

\* const map = new Set(); if (existingPatterns) { existingMap = new Set(...) }
CallUniquePatterns ==
    /\ pc = "start"
    /\ call.op = "uniquePatterns"
    /\ IF call.existingPatterns.given
         THEN /\ uniq' = [map |-> <<>>,
                          existingMap |-> Range(call.existingPatterns.v)]
              /\ pc' = "uniq_loop_existing"
         ELSE /\ uniq' = [map |-> <<>>]
              /\ pc' = "uniq_loop"
    /\ UNCHANGED <<src, outside, srcBytes, call, calls, rs, fmt, pat, result>>

\* while (map.size < count) { const p = pattern(...) ... } return [...map.keys()]
UniqLoopExisting ==
    /\ pc = "uniq_loop_existing"
    /\ IF Len(uniq.map) < call.count
         THEN /\ EnterPattern(call.len, call.patterns, "uniq_test_ret")
              /\ pc' = "pat_start"
              /\ UNCHANGED result
         ELSE /\ result' = ArrayOf(uniq.map)
              /\ pc' = "done"
              /\ UNCHANGED pat
    /\ UNCHANGED <<src, outside, srcBytes, call, calls, rs, fmt, uniq>>

\* the value the loop with an exclusion list adds after the test of p:
\* map.add(pattern(random, len, patterns)), a second call of pattern
UniqTestRet ==
    /\ pc = "uniq_test_ret"
    /\ uniq' = [map |-> uniq.map, existingMap |-> uniq.existingMap,
                p |-> pat.result]
    /\ IF pat.result \in uniq.existingMap
         THEN /\ pc' = "uniq_loop_existing"
              /\ pat' = NoFrame
         ELSE /\ EnterPattern(call.len, call.patterns, "uniq_add_ret")
              /\ pc' = "pat_start"
    /\ UNCHANGED <<src, outside, srcBytes, call, calls, rs, fmt, result>>

\* an accumulator that is the caller's list: existingPatterns.push(...)
UniqAddRetIntoList ==
    /\ pc = "uniq_add_ret"
    /\ uniq' = [uniq EXCEPT !.map = SetAdd(uniq.map, pat.result)]
    /\ call' = [call EXCEPT !.existingPatterns =
                    Given(Append(call.existingPatterns.v, pat.result))]
    /\ pat' = NoFrame
    /\ pc' = "uniq_loop_existing"
    /\ UNCHANGED <<src, outside, srcBytes, calls, rs, fmt, result>>

\* map.add(<the second pattern>)
UniqAddRet ==
    /\ pc = "uniq_add_ret"
    /\ uniq' = [uniq EXCEPT !.map = SetAdd(uniq.map, pat.result)]
    /\ pat' = NoFrame
    /\ pc' = "uniq_loop_existing"
    /\ UNCHANGED <<src, outside, srcBytes, call, calls, rs, fmt, result>>

\* while (map.size < count) { map.add(pattern(...)) } return [...map.keys()]
UniqLoop ==
    /\ pc = "uniq_loop"
    /\ IF Len(uniq.map) < call.count
         THEN /\ EnterPattern(call.len, call.patterns, "uniq_plain_ret")
              /\ pc' = "pat_start"
              /\ UNCHANGED result
         ELSE /\ result' = ArrayOf(uniq.map)
              /\ pc' = "done"
              /\ UNCHANGED pat
    /\ UNCHANGED <<src, outside, srcBytes, call, calls, rs, fmt, uniq>>

UniqPlainRet ==
    /\ pc = "uniq_plain_ret"
    /\ uniq' = [uniq EXCEPT !.map = SetAdd(uniq.map, pat.result)]
    /\ pat' = NoFrame
    /\ pc' = "uniq_loop"
    /\ UNCHANGED <<src, outside, srcBytes, call, calls, rs, fmt, result>>

---------------------------------------------------------------------------
(* The sampler's specification.                                            *)

Ranges == {-3, -2, 0, 1, 2, 3, 5, 7, 32767}

IntSources == {{0, 1, 255}}

IntCalls ==
    [op : {"integerLessThan"}, range : Ranges]
    \cup [op : {"integer"}, min : 0..MaxInt, max : 0..MaxInt]

\* no call has started; the source is left to the specification
InitCall ==
    /\ pc = "start"
    /\ calls = 0
    /\ first = NoResult
    /\ ux = NoFrame
    /\ bat = NoFrame
    /\ sf = NoFrame
    /\ mar = NoFrame
    /\ rs = NoFrame
    /\ fmt = NoFrame
    /\ pat = NoFrame
    /\ uniq = NoFrame
    /\ result = NoResult

\* no call has started and the source returns fresh arrays of any bytes
InitFrames ==
    /\ src = FreeSource
    /\ InitCall

InitInt ==
    /\ srcBytes \in IntSources
    /\ call \in IntCalls
    /\ InitFrames

NextInt == CallIntegerLessThan \/ CallInteger \/ RsDraw \/ RsReturn

SpecInt == InitInt /\ [][NextInt]_vars

---------------------------------------------------------------------------
(* The extractors' specification: the source returns fresh arrays or       *)
(* subarrays that start one byte into their buffer.                        *)

UintOps == {"uint8", "uint16", "uint32", "uint64"}

UintSources == {{1, 255}}

UintPrefixes == {<<>>, <<128>>}

InitUint ==
    /\ srcBytes \in UintSources
    /\ call \in [op : UintOps]
    /\ src \in {ViewSource(pre) : pre \in UintPrefixes}
    /\ InitCall

NextUint == uint8 \/ uint16 \/ uint32 \/ uint64

SpecUint == InitUint /\ [][NextUint]_vars

---------------------------------------------------------------------------
(* batchedRandomSource(source, batchSize): bat holds the closure's buffer  *)
(* and offset, the locals len, result, pos of the request in progress, and *)
(* the history: drawn, the batches taken from the base source in order;    *)
(* lens, rets, filled, the length asked, the array returned and the number *)
(* of bytes written into it, for every request that returned.              *)

\* new Uint8Array(len)
Zeros(len) == [k \in 1..len |-> 0]

\* buffer.subarray(begin, end)
Subarray(buffer, begin, end) == SubSeq(buffer, begin + 1, end)

\* result.set(chunk, pos)
SetAt(array, chunk, pos) ==
    [k \in 1..Len(array) |->
        IF pos < k /\ k <= pos + Len(chunk) THEN chunk[k - pos]
                                            ELSE array[k]]

\* a batched source that copies from the start of the buffer
BatChunkFromStart(buffer, offset, size) == Subarray(buffer, 0, size)

\* buffer.subarray(offset, offset + size)
BatChunk(buffer, offset, size) == Subarray(buffer, offset, offset + size)

\* a batched source that copies one chunk only: if instead of while
BatMoreFirstChunk(pos, len) == pos < len /\ pos = 0

\* the loop condition while (pos < len)
BatMore(pos, len) == pos < len

\* the lengths asked of a batched source
RequestLens == {0, 1, 2, 4}

\* let buffer: Uint8Array | undefined; let offset = 0
NewBatched(batchSize) ==
    [batchSize |-> batchSize, hasBuffer |-> FALSE, buffer |-> <<>>,
     offset |-> 0, pc |-> "idle", len |-> 0, result |-> <<>>, pos |-> 0,
     drawn |-> <<>>, lens |-> <<>>, rets |-> <<>>, filled |-> <<>>]

\* a request: if (!buffer) buffer = source(batchSize); result = new
\* Uint8Array(len); pos = 0
BatCall ==
    /\ bat.pc = "idle"
    /\ Len(bat.rets) < MaxRequests
    /\ \E len \in RequestLens :
         LET entered == [bat EXCEPT !.len = len, !.result = Zeros(len),
                                    !.pos = 0, !.pc = "loop"]
         IN  IF bat.hasBuffer
               THEN /\ bat' = entered
                    /\ UNCHANGED src
               ELSE /\ \E b \in Batches(bat.batchSize) :
                         bat' = [entered EXCEPT !.hasBuffer = TRUE,
                                                !.buffer = b,
                                                !.drawn = bat.drawn \o b]
                    /\ src' = Consumed(bat.batchSize)
    /\ UNCHANGED <<core, sf, mar>>

\* one iteration of while (pos < len): copy a chunk, refill when the buffer
\* is used up
BatCopy ==
    /\ bat.pc = "loop"
    /\ BatMore(bat.pos, bat.len)
    /\ LET size   == Min(bat.len - bat.pos, bat.batchSize - bat.offset)
           chunk  == BatChunk(bat.buffer, bat.offset, size)
           copied == [bat EXCEPT !.result = SetAt(bat.result, chunk, bat.pos),
                                 !.pos = bat.pos + size,
                                 !.offset = bat.offset + size]
       IN  IF copied.offset = bat.batchSize
             THEN /\ \E b \in Batches(bat.batchSize) :
                       bat' = [copied EXCEPT !.buffer = b, !.offset = 0,
                                             !.drawn = bat.drawn \o b]
                  /\ src' = Consumed(bat.batchSize)
             ELSE /\ bat' = copied
                  /\ UNCHANGED src
    /\ UNCHANGED <<core, sf, mar>>

\* return result
BatReturn ==
    /\ bat.pc = "loop"
    /\ ~BatMore(bat.pos, bat.len)
    /\ bat' = [bat EXCEPT !.pc = "idle",
                          !.lens = Append(bat.lens, bat.len),
                          !.rets = Append(bat.rets, bat.result),
                          !.filled = Append(bat.filled, bat.pos)]
    /\ UNCHANGED <<core, sf, mar, src>>

\* the byte source returning 0, 1, 2, ..., 255, 0, 1, ... cyclically
CountingCycle == [k \in 1..256 |-> k - 1]

BatchSizes == {1, 2, 3}

BatchedCycles == {CountingCycle, <<7, 7, 9>>}

InitBatched ==
    /\ src \in {StreamSource(c, <<>>) : c \in BatchedCycles}
    /\ srcBytes = Range(src.cycle)
    /\ call \in [op : {"batchedRandomSource"}, batchSize : BatchSizes]
    /\ bat = NewBatched(call.batchSize)
    /\ pc = "start"
    /\ calls = 0
    /\ first = NoResult
    /\ ux = NoFrame
    /\ sf = NoFrame
    /\ mar = NoFrame
    /\ rs = NoFrame
    /\ fmt = NoFrame
    /\ pat = NoFrame
    /\ uniq = NoFrame
    /\ result = NoResult

NextBatched == BatCall \/ BatCopy \/ BatReturn

SpecBatched == InitBatched /\ [][NextBatched]_vars

---------------------------------------------------------------------------
(* packages/singleflight: SingleFlightGroup.  sf holds pool, the Map from  *)
(* key to pending promise (0 for no entry, else the number of the          *)
(* execution); execs, one record per generator invocation: key, arg, the   *)
(* state of its promise and the run calls awaiting it in the order of      *)
(* their await; runs, one record per run call; invocations, the number of  *)
(* generator calls.  An async function runs up to its first await when it  *)
(* is called; the reactions of a promise run in the order of the awaits.   *)

\* the keys and the arguments of the run calls; singleFlight passes its
\* first argument as the key
Keys == {3, 5}

Args == {3, 5}

\* the states of a promise
Pending == [state |-> "pending"]
Resolved(v) == [state |-> "resolved", v |-> v]
Rejected(e) == [state |-> "rejected", e |-> e]

\* the generator of the tests: async (i) => i * i
Gen(arg) == arg * arg

\* a key with an entry in the pool handed to every call
PoolGetAnyKey(pool, key) ==
    IF \E k \in Keys : pool[k] # 0
      THEN pool[CHOOSE k \in Keys : pool[k] # 0] ELSE 0

\* a group that never finds the pending execution
PoolGetMiss(pool, key) == 0

\* this.pool.get(key)
PoolGet(pool, key) == pool[key]

\* a finally block that never recognises its own entry
EntryIsOwnNever(pool, key, e) == FALSE

\* this.pool.get(key) === pending, in the finally block of the call that
\* made execution e
EntryIsOwn(pool, key, e) == pool[key] = e

\* a finally block that leaves the entry in the pool
PoolDeleteNothing(pool, key) == pool

\* this.pool.delete(key)
PoolDelete(pool, key) == [pool EXCEPT ![key] = 0]

\* an async function that awaits a promise: a run call or a wait call
RunWaiter(c) == [kind |-> "run", id |-> c]
WaitWaiter(w) == [kind |-> "wait", id |-> w]

\* an async function of type Promise<void> has returned
Returned == [state |-> "returned"]

\* the keys that have an entry in the pool
Busy(pool) == {k \in Keys : pool[k] # 0}

\* new SingleFlightGroup()
NewGroup ==
    [pool |-> [k \in Keys |-> 0], execs |-> <<>>, runs |-> <<>>,
     waits |-> <<>>, invocations |-> 0]

\* run(key, generator, ...args) up to its await: the call that finds no
\* entry calls the generator and stores its promise, the others take the
\* stored one; saw is the entry of the pool when the call was made, busy
\* the keys that had an entry then, late whether the stored promise had
\* settled by then
SfRun ==
    /\ Len(sf.runs) < MaxRuns
    /\ \E key \in Keys, arg \in Args :
         LET c       == Len(sf.runs) + 1
             pending == PoolGet(sf.pool, key)
             e       == Len(sf.execs) + 1
         IN  IF pending = 0
               THEN sf' = [sf EXCEPT
                      !.pool = [sf.pool EXCEPT ![key] = e],
                      !.execs = Append(sf.execs,
                                  [key |-> key, arg |-> arg,
                                   outcome |-> Pending,
                                   waiters |-> <<RunWaiter(c)>>]),
                      !.invocations = sf.invocations + 1,
                      !.runs = Append(sf.runs,
                                 [key |-> key, arg |-> arg, exec |-> e,
                                  leader |-> TRUE, saw |-> sf.pool[key],
                                  busy |-> Busy(sf.pool), late |-> FALSE,
                                  outcome |-> Pending])]
               ELSE sf' = [sf EXCEPT
                      !.execs[pending].waiters = Append(@, RunWaiter(c)),
                      !.runs = Append(sf.runs,
                                 [key |-> key, arg |-> arg, exec |-> pending,
                                  leader |-> FALSE, saw |-> sf.pool[key],
                                  busy |-> Busy(sf.pool),
                                  late |-> sf.execs[pending].outcome # Pending,
                                  outcome |-> Pending])]
    /\ UNCHANGED <<core, src, bat, mar>>

\* the promise of an execution settles: the generator's value or an error
SfSettle ==
    /\ \E e \in 1..Len(sf.execs) :
         /\ sf.execs[e].outcome = Pending
         /\ \E o \in {Resolved(Gen(sf.execs[e].arg)), Rejected("test error")} :
              sf' = [sf EXCEPT !.execs[e].outcome = o]
    /\ UNCHANGED <<core, src, bat, mar>>

\* the next run call awaiting a settled promise goes on: the call that made
\* the execution runs its finally block and deletes the entry, every call
\* returns or throws what the promise settled with
SfResume ==
    /\ \E e \in 1..Len(sf.execs) :
         /\ sf.execs[e].outcome # Pending
         /\ sf.execs[e].waiters # <<>>
         /\ Head(sf.execs[e].waiters).kind = "run"
         /\ LET c   == Head(sf.execs[e].waiters).id
                key == sf.execs[e].key
                woken == [sf EXCEPT !.execs[e].waiters = Tail(@)]
            IN  IF ~sf.runs[c].leader
                  THEN sf' = [woken EXCEPT
                         !.runs[c].outcome = sf.execs[e].outcome]
                  ELSE IF EntryIsOwn(sf.pool, key, e)
                    THEN sf' = [woken EXCEPT
                           !.pool = PoolDelete(sf.pool, key),
                           !.runs[c].outcome = sf.execs[e].outcome]
                    ELSE sf' = [woken EXCEPT
                           !.runs[c].outcome =
                               Rejected("...? This should never happen")]
    /\ UNCHANGED <<core, src, bat, mar>>

\* wait(key) up to its await: const pending = this.pool.get(key); without
\* an entry the call returns at once, else it awaits the stored promise
SfWait ==
    /\ Len(sf.waits) < MaxWaits
    /\ \E key \in Keys :
         LET w       == Len(sf.waits) + 1
             pending == PoolGet(sf.pool, key)
         IN  IF pending = 0
               THEN sf' = [sf EXCEPT
                      !.waits = Append(sf.waits,
                                  [key |-> key, saw |-> sf.pool[key],
                                   outcome |-> Returned])]
               ELSE sf' = [sf EXCEPT
                      !.execs[pending].waiters = Append(@, WaitWaiter(w)),
                      !.waits = Append(sf.waits,
                                  [key |-> key, saw |-> sf.pool[key],
                                   outcome |-> Pending])]
    /\ UNCHANGED <<core, src, bat, mar>>

\* a wait that removes the entry of its key when it goes on
SfWaitResumeDeleting ==
    /\ \E e \in 1..Len(sf.execs) :
         /\ sf.execs[e].outcome # Pending
         /\ sf.execs[e].waiters # <<>>
         /\ Head(sf.execs[e].waiters).kind = "wait"
         /\ LET w == Head(sf.execs[e].waiters).id
            IN  sf' = [sf EXCEPT
                  !.execs[e].waiters = Tail(@),
                  !.pool = PoolDelete(sf.pool, sf.waits[w].key),
                  !.waits[w].outcome =
                      IF sf.execs[e].outcome.state = "rejected"
                        THEN sf.execs[e].outcome ELSE Returned]
    /\ UNCHANGED <<core, src, bat, mar>>

\* a wait call goes on after await pending: a fulfilled promise lets it
\* return, a rejected one makes the await throw the error
SfWaitResume ==
    /\ \E e \in 1..Len(sf.execs) :
         /\ sf.execs[e].outcome # Pending
         /\ sf.execs[e].waiters # <<>>
         /\ Head(sf.execs[e].waiters).kind = "wait"
         /\ LET w == Head(sf.execs[e].waiters).id
            IN  sf' = [sf EXCEPT
                  !.execs[e].waiters = Tail(@),
                  !.waits[w].outcome =
                      IF sf.execs[e].outcome.state = "rejected"
                        THEN sf.execs[e].outcome ELSE Returned]
    /\ UNCHANGED <<core, src, bat, mar>>

InitFlight ==
    /\ sf = NewGroup
    /\ mar = NoFrame
    /\ src = FreeSource
    /\ srcBytes = {}
    /\ call = [op |-> "SingleFlightGroup"]
    /\ bat = NoFrame
    /\ pc = "start"
    /\ calls = 0
    /\ first = NoResult
    /\ ux = NoFrame
    /\ rs = NoFrame
    /\ fmt = NoFrame
    /\ pat = NoFrame
    /\ uniq = NoFrame
    /\ result = NoResult

NextFlight == SfRun \/ SfSettle \/ SfResume

SpecFlight == InitFlight /\ [][NextFlight]_vars

\* a run call on a group that also gets wait calls
SfRunBesideWaits ==
    /\ Len(sf.runs) < MaxWaitRuns
    /\ SfRun

\* run calls and wait calls on one SingleFlightGroup
NextWait ==
    SfRunBesideWaits \/ SfSettle \/ SfResume \/ SfWait \/ SfWaitResume

SpecWait == InitFlight /\ [][NextWait]_vars

---------------------------------------------------------------------------
(* packages/marline: Marline.start, Marline.stop and the module-level      *)
(* activeMarline.  The calls are synchronous; nothing of start or stop     *)
(* runs between the test of activeMarline and the two assignments.         *)

Instances == 1..MaxInstances

\* let activeMarline: Marline | null = null
null == 0

\* a start() without the test of activeMarline
ActiveMarlineIgnored(active) == FALSE

\* if (activeMarline) throw ...
ActiveMarlineSet(active) == active # null

\* the instances after their constructors; isAvailable is fixed there
NewMarlines(isAvailable) ==
    [activeMarline |-> null, exitHookInstalled |-> FALSE,
     isAvailable |-> isAvailable,
     started |-> [i \in Instances |-> FALSE],
     resizeListened |-> [i \in Instances |-> FALSE],
     log |-> <<>>]

\* a call, its instance and how it ended, appended to the log of calls
Logged(m, op, i, outcome) ==
    [m EXCEPT !.log = Append(m.log,
                        [op |-> op, instance |-> i, outcome |-> outcome])]

\* the body of stop() on a started instance: _started = false;
\* activeMarline = null; the resize listener is removed unless the stream
\* has no removeListener or removeListener throws
Stops(m, i) ==
    {[m EXCEPT !.started[i] = FALSE, !.activeMarline = null,
               !.resizeListened[i] = listened] :
        listened \in IF m.resizeListened[i] THEN {FALSE, TRUE} ELSE {FALSE}}

\* instance.start()
MarlineStart ==
    /\ Len(mar.log) < MaxMarlineCalls
    /\ \E i \in Instances :
         IF ~mar.isAvailable[i] \/ mar.started[i]
           THEN mar' = Logged(mar, "start", i, Returned)
           ELSE IF ActiveMarlineSet(mar.activeMarline)
             THEN mar' = Logged(mar, "start", i,
                           Thrown("Another Marline instance is running."))
             ELSE mar' = Logged([mar EXCEPT !.exitHookInstalled = TRUE,
                                            !.started[i] = TRUE,
                                            !.activeMarline = i,
                                            !.resizeListened[i] = TRUE],
                                "start", i, Returned)
    /\ UNCHANGED <<core, src, bat, sf>>

\* instance.stop()
MarlineStop ==
    /\ Len(mar.log) < MaxMarlineCalls
    /\ \E i \in Instances :
         IF ~mar.started[i]
           THEN mar' = Logged(mar, "stop", i, Returned)
           ELSE \E stopped \in Stops(mar, i) :
                  mar' = Logged(stopped, "stop", i, Returned)
    /\ UNCHANGED <<core, src, bat, sf>>

\* the exit hook: if (activeMarline) activeMarline.stop()
MarlineExitHook ==
    /\ Len(mar.log) < MaxMarlineCalls
    /\ mar.exitHookInstalled
    /\ IF mar.activeMarline = null
         THEN mar' = Logged(mar, "exitHook", null, Returned)
         ELSE \E stopped \in Stops(mar, mar.activeMarline) :
                mar' = Logged(stopped, "exitHook", mar.activeMarline,
                              Returned)
    /\ UNCHANGED <<core, src, bat, sf>>

InitMarline ==
    /\ \E isAvailable \in [Instances -> BOOLEAN] :
         mar = NewMarlines(isAvailable)
    /\ sf = NoFrame
    /\ bat = NoFrame
    /\ src = FreeSource
    /\ srcBytes = {}
    /\ call = [op |-> "Marline"]
    /\ pc = "start"
    /\ calls = 0
    /\ first = NoResult
    /\ ux = NoFrame
    /\ rs = NoFrame
    /\ fmt = NoFrame
    /\ pat = NoFrame
    /\ uniq = NoFrame
    /\ result = NoResult

NextMarline == MarlineStart \/ MarlineStop \/ MarlineExitHook

SpecMarline == InitMarline /\ [][NextMarline]_vars

---------------------------------------------------------------------------
(* The formatter's specification.                                          *)

Alphabets == {<<"a">>, <<"a", "b">>, <<"a", "b", "c">>}

FormatSources == {{0, 1, 2, 3}}

FormatCalls == [op : {"format"}, alphabet : Alphabets, size : 0..MaxSize]

InitFormat ==
    /\ srcBytes \in FormatSources
    /\ call \in FormatCalls
    /\ InitFrames

NextFormat == CallFormat \/ FormatDraw \/ FormatScan \/ TopFormatRet

SpecFormat == InitFormat /\ [][NextFormat]_vars

\* the first statement of format alone: the mask of an alphabet of the
\* given length
FormatMask ==
    /\ pc = "start"
    /\ call.op = "mask"
    /\ result' = Num(Mask(call.length))
    /\ pc' = "done"
    /\ UNCHANGED <<src, outside, srcBytes, call, calls, rs, fmt, pat, uniq>>

InitMask ==
    /\ srcBytes = {}
    /\ call \in [op : {"mask"}, length : 1..MaxAlphabet]
    /\ InitFrames

NextMask == FormatMask

SpecMask == InitMask /\ [][NextMask]_vars

\* some byte of the batch just drawn selects a character of the alphabet
FormatDrawAccepted ==
    /\ FormatDraw
    /\ \E k \in DOMAIN fmt'.bytes :
         BitAnd(fmt'.bytes[k], fmt.mask) < Len(fmt.alphabet)

\* the program keeps running, and the source keeps delivering batches that
\* contain an accepted byte
FairSpecFormat ==
    SpecFormat /\ WF_vars(NextFormat) /\ SF_vars(FormatDrawAccepted)

---------------------------------------------------------------------------
(* The composer's specification.                                           *)

Str(a) == [kind |-> "string", v |-> a]
List(l) == [kind |-> "list", v |-> l]

PatternSpecs ==
    {Str(<<"a", "b", "c">>),
     List(<<<<"a">>, <<"b", "c">>>>),
     List(<<<<"a">>, <<"b">>, <<"c">>>>)}

PatternSources == {{0, 1}, {2, 3}}

PatternCalls == [op : {"pattern"}, len : 0..MaxLen, patterns : PatternSpecs]

InitPattern ==
    /\ srcBytes \in PatternSources
    /\ call \in PatternCalls
    /\ InitFrames

NextPatternBody ==
    \/ FormatDraw \/ FormatScan
    \/ PatternStart \/ PatternTail \/ PatternSub \/ PatternSubRet
    \/ PatternRestRet \/ PatternShuffle

NextPattern == CallPattern \/ NextPatternBody \/ TopPatternRet

SpecPattern == InitPattern /\ [][NextPattern]_vars

FairSpecPattern ==
    SpecPattern /\ WF_vars(NextPattern) /\ SF_vars(FormatDrawAccepted)

---------------------------------------------------------------------------
(* The specification of uniquePatterns.                                    *)

\* the calls of pattern these make take the branches without the shuffle
\* (a string, or a list longer than len), which SpecPattern covers
UniqueSpecs ==
    {Str(<<"a", "b">>), List(<<<<"a">>, <<"b">>, <<"c">>, <<"d">>>>)}

UniqueSources == {{0, 1}}

ExclusionLists ==
    {Omitted, Given(<<>>), Given(<<<<"a">>>>),
     Given(<<<<"a">>, <<"b", "a">>>>)}

UniqueCalls ==
    [op : {"uniquePatterns"}, count : 0..MaxCount, len : 1..MaxUniqLen,
     patterns : UniqueSpecs, existingPatterns : ExclusionLists]

InitUnique ==
    /\ srcBytes \in UniqueSources
    /\ call \in UniqueCalls
    /\ InitFrames

NextUnique ==
    \/ CallUniquePatterns \/ UniqLoopExisting \/ UniqTestRet \/ UniqAddRet
    \/ UniqLoop \/ UniqPlainRet
    \/ PatternStart \/ PatternTail \/ FormatDraw \/ FormatScan

SpecUnique == InitUnique /\ [][NextUnique]_vars

---------------------------------------------------------------------------
(* Every call of the package.                                              *)

Init == InitInt \/ InitFormat \/ InitPattern \/ InitUnique

Next == NextInt \/ NextFormat \/ NextPattern \/ NextUnique

Spec == Init /\ [][Next]_vars

---------------------------------------------------------------------------
(* Two calls of one function with the same arguments, each on a source of  *)
(* its own; the two sources deliver the same byte sequence.                *)

\* the outcome of the first call: what it returned, how many bytes it took,
\* and where its source's arrays lay in their buffers
FirstOutcome(r, n, pre) == [t |-> "first", result |-> r, pos |-> n, pre |-> pre]

DetCycles == {<<0, 1, 2, 3, 255>>, <<1, 0, 3>>}

\* the sources return fresh arrays, or subarrays one byte into a buffer
DetPrefixes == {<<>>, <<128>>}

DetCalls ==
    [op : UintOps] \cup IntCalls \cup FormatCalls \cup PatternCalls
        \cup UniqueCalls

InitDet ==
    /\ src \in {StreamSource(c, pre) : c \in DetCycles, pre \in DetPrefixes}
    /\ srcBytes = Range(src.cycle)
    /\ call \in DetCalls
    /\ InitCall

\* the first call has returned: the same call starts again on a second
\* source that delivers the same bytes from their beginning
SecondCall ==
    /\ pc = "done"
    /\ first = NoResult
    /\ first' = FirstOutcome(result, src.pos, src.pre)
    /\ src' \in {StreamSource(src.cycle, pre) : pre \in DetPrefixes}
    /\ pc' = "start"
    /\ calls' = 0
    /\ ux' = NoFrame
    /\ rs' = NoFrame
    /\ fmt' = NoFrame
    /\ pat' = NoFrame
    /\ uniq' = NoFrame
    /\ result' = NoResult
    /\ UNCHANGED <<srcBytes, call, bat, sf, mar>>

NextDet == NextUint \/ Next \/ SecondCall

\* pattern called with a list of more sub-alphabets than characters asked
\* for, then format called with the joined sub-alphabets and the same size
\* on a second source that delivers the same bytes
ShortCycles == [1..3 -> {0, 1, 2, 131}] \cup {<<3, 2, 1, 130>>, <<5, 2>>}

\* the call takes the branch len < patterns.length
Short ==
    /\ call.op = "pattern"
    /\ call.patterns.kind = "list"
    /\ call.len < Len(call.patterns.v)

InitShort ==
    /\ src \in {StreamSource(c, <<>>) : c \in ShortCycles}
    /\ srcBytes = Range(src.cycle)
    /\ call \in PatternCalls
    /\ InitCall

FormatOfJoined ==
    /\ pc = "done"
    /\ first = NoResult
    /\ Short
    /\ first' = FirstOutcome(result, src.pos, src.pre)
    /\ call' = [op |-> "format", alphabet |-> Join(call.patterns.v),
                size |-> call.len]
    /\ src' = StreamSource(src.cycle, src.pre)
    /\ pc' = "start"
    /\ calls' = 0
    /\ result' = NoResult
    /\ UNCHANGED <<srcBytes, ux, rs, fmt, pat, uniq, bat, sf, mar>>

NextShort == NextPattern \/ CallFormat \/ TopFormatRet \/ FormatOfJoined

SpecShort == InitShort /\ [][NextShort]_vars

\* uniquePatterns called with an empty exclusion list, then with the
\* exclusion list omitted on a second source that delivers the same bytes
EmptyListCycles == {<<0, 1>>, <<1, 0, 0>>, <<0, 1, 1, 2>>, <<3, 2, 1, 0, 1>>}

EmptyListCalls == {c \in UniqueCalls : c.existingPatterns = Given(<<>>)}

InitEmptyList ==
    /\ src \in {StreamSource(c, <<>>) : c \in EmptyListCycles}
    /\ srcBytes = Range(src.cycle)
    /\ call \in EmptyListCalls
    /\ InitCall

ListOmitted ==
    /\ pc = "done"
    /\ first = NoResult
    /\ call.existingPatterns.given
    /\ first' = FirstOutcome(result, src.pos, src.pre)
    /\ call' = [call EXCEPT !.existingPatterns = Omitted]
    /\ src' = StreamSource(src.cycle, src.pre)
    /\ pc' = "start"
    /\ calls' = 0
    /\ uniq' = NoFrame
    /\ result' = NoResult
    /\ UNCHANGED <<srcBytes, ux, rs, fmt, pat, bat, sf, mar>>

NextEmptyList == NextUnique \/ ListOmitted

SpecEmptyList == InitEmptyList /\ [][NextEmptyList]_vars

\* pattern on sources that deliver a fixed byte sequence, so that the bytes
\* each step consumes are counted
ShuffleCycles == [1..3 -> {0, 1, 2, 131}]

InitShuffle ==
    /\ src \in {StreamSource(c, <<>>) : c \in ShuffleCycles}
    /\ srcBytes = Range(src.cycle)
    /\ call \in PatternCalls
    /\ InitCall

SpecShuffle == InitShuffle /\ [][NextPattern]_vars

---------------------------------------------------------------------------
(* A source that can fail.  No function of the core has a try statement:   *)
(* an exception thrown by source(...) leaves every frame of the call.      *)

\* what a source can throw
Errors == {"EntropyError", "RangeError"}

\* the program is about to call the source n times in a row
AboutToDraw(n) ==
    \/ n = 1 /\ pc = "start" /\ call.op \in UintOps
    \/ n = 1 /\ pc \in {"rs_draw", "fmt_draw"}
    \/ pc = "pat_shuffle" /\ n = Len(pat.buf)

\* a core that catches the exception and calls the source again
SourceFailsRetried ==
    /\ ~src.err.raised
    /\ \E n \in 1..MaxTape : AboutToDraw(n)
    /\ \E e \in Errors : src' = [src EXCEPT !.err = Raised(e)]
    /\ calls' = Bump(calls)
    /\ UNCHANGED <<outside, srcBytes, call, pc, rs, fmt, pat, uniq, result>>

\* the k-th of the source calls the program is about to make throws e: the
\* exception unwinds format, pattern, uniquePatterns and reaches the caller
SourceFails ==
    /\ ~src.err.raised
    /\ \E n \in 1..MaxTape, e \in Errors :
         /\ AboutToDraw(n)
         /\ \E k \in 1..n : calls' = Min(calls + k, MaxCalls)
         /\ src' = [src EXCEPT !.err = Raised(e)]
         /\ result' = Thrown(e)
    /\ pc' = "thrown"
    /\ rs' = NoFrame
    /\ fmt' = NoFrame
    /\ pat' = NoFrame
    /\ uniq' = NoFrame
    /\ UNCHANGED <<outside, srcBytes, call>>

InitFail ==
    /\ srcBytes \in {{0, 1}}
    /\ call \in DetCalls
    /\ InitFrames

NextFail == NextUint \/ Next \/ SourceFails

SpecFail == InitFail /\ [][NextFail]_vars

SpecDet == InitDet /\ [][NextDet]_vars

---------------------------------------------------------------------------
(* Claims about uniquePatterns (SpecUnique).                               *)

NoDuplicates(list) ==
    \A x, y \in DOMAIN list : x # y => list[x] # list[y]

UniqueReturned == pc = "done" /\ call.op = "uniquePatterns"

\* C1: no string returned by uniquePatterns with an exclusion list is a
\* member of that list.
C1_NoneExcluded ==
    (UniqueReturned /\ call.existingPatterns.given)
        => \A x \in Range(result.v) :
             x \notin Range(call.existingPatterns.v)

\* C2: when uniquePatterns returns, the list has exactly count elements and
\* they are pairwise distinct, with and without an exclusion list.
C2_CountDistinct ==
    UniqueReturned
        => (Len(result.v) = call.count /\ NoDuplicates(result.v))

\* a call with an exclusion list returned two strings
C2_Witness ==
    /\ UniqueReturned
    /\ call.existingPatterns.given
    /\ call.existingPatterns.v # <<>>
    /\ call.count = 2
    /\ Len(result.v) = 2

---------------------------------------------------------------------------
(* Claims about pattern (SpecPattern, FairSpecPattern).                    *)

PatternReturned == pc = "done" /\ call.op = "pattern"

\* the call takes the branch with the guaranteed characters
Guaranteed ==
    /\ call.op = "pattern"
    /\ call.patterns.kind = "list"
    /\ call.len >= Len(call.patterns.v)

\* C3: for a list of n sub-alphabets and size >= n, the output of pattern
\* contains at least one character of each sub-alphabet.
C3_EachSubAlphabet ==
    (PatternReturned /\ Guaranteed)
        => \A k \in DOMAIN call.patterns.v :
             \E x \in DOMAIN result.v :
               result.v[x] \in Range(call.patterns.v[k])

\* a shuffled pattern over two sub-alphabets was returned
C3_Witness ==
    PatternReturned /\ Guaranteed /\ Len(call.patterns.v) = 2

\* C4: whenever pattern returns, its output has exactly size characters;
\* the shuffle, where it happens, permutes exactly size characters.
C4_Length ==
    /\ PatternReturned => Len(result.v) = call.len
    /\ pc = "pat_shuffle" => Len(pat.buf) = pat.len

\* a pattern of guaranteed and remainder characters was returned
C4_Witness ==
    /\ PatternReturned
    /\ Guaranteed
    /\ call.len > Len(call.patterns.v)
    /\ Len(result.v) = call.len

\* C5: for a list of n >= 1 non-empty sub-alphabets and size = n, pattern
\* terminates and returns an n-character string.
C5_ExactSizeReturns ==
    (pc = "start" /\ Guaranteed /\ call.len = Len(call.patterns.v))
        ~> (PatternReturned /\ Len(result.v) = call.len)

---------------------------------------------------------------------------
(* Claims about format (SpecFormat, FairSpecFormat).                       *)

\* the step appends to id exactly the character the scanned byte selects
AppendsSelected ==
    LET idx == BitAnd(fmt.bytes[fmt.i], fmt.mask)
    IN  /\ idx < Len(fmt.alphabet)
        /\ fmt'.id = Append(fmt.id, fmt.alphabet[idx + 1])

\* C6: every character format puts into its output is alphabet[b & mask]
\* for the scanned byte b, with (b & mask) < alphabet.length; every character
\* of the result is a member of the alphabet.
C6_CharsOfAlphabet ==
    /\ [](pc = "done" => \A x \in DOMAIN result.v :
                            result.v[x] \in Range(call.alphabet))
    /\ [][(pc = "fmt_scan" /\ fmt'.id # fmt.id) => AppendsSelected]_vars
    /\ [][pc = "top_fmt_ret" => result' = StringOf(fmt.id)]_vars

\* format returned a string of two characters after refusing a byte
C6_Witness ==
    /\ pc = "top_fmt_ret"
    /\ Len(fmt.id) = 2
    /\ fmt.i < fmt.step - 2

\* C7: for every alphabet and every size n >= 0, format terminates and
\* returns a string of length n (the source keeps delivering accepted bytes).
C7_FormatReturns ==
    (pc = "start") ~> (pc = "done" /\ Len(result.v) = call.size)

---------------------------------------------------------------------------
(* Claims about the sampler (SpecInt).                                     *)

\* C8: integerLessThan(source, range) returns r with 0 <= r < range, on an
\* accepted draw and on the fallback at the retry cap.
C8_InRange ==
    (pc = "done" /\ call.op = "integerLessThan" /\ call.range >= 1)
        => (result.t = "number" /\ result.v \in 0..(call.range - 1))

\* the retry cap was exhausted and the last draw was not acceptable
C8_Witness ==
    /\ pc = "done"
    /\ call.op = "integerLessThan"
    /\ call.range >= 1
    /\ rs.i >= maxIntegerIter
    /\ ~U32Less(rs.sample, Limit(call.range))

\* C9: for min <= max, integer(source, min, max) is min plus the value
\* integerLessThan gives for max - min + 1 on the same draw, and lies in
\* [min, max].
C9_OffsetOfLessThan ==
    (pc = "done" /\ call.op = "integer" /\ call.min <= call.max)
        => /\ result =
                Num(call.min + U32Mod(rs.sample, call.max - call.min + 1))
           /\ result.v \in call.min..call.max

\* integer returned the upper end of a proper interval
C9_Witness ==
    /\ pc = "done"
    /\ call.op = "integer"
    /\ 0 < call.min
    /\ call.min < call.max
    /\ result = Num(call.max)

\* C10: for min > max, integer returns NaN and draws nothing from the source.
C10_InvalidRange ==
    (pc = "done" /\ call.op = "integer" /\ call.min > call.max)
        => (result = NaN /\ calls = 0 /\ rs = NoFrame)

\* integer was called with an inverted interval and returned
C10_Witness ==
    pc = "done" /\ call.op = "integer" /\ call.min > call.max

\* C11: integerLessThan called with range = 0 or a negative range never
\* returns a number: it signals the invalid range with NaN.
C11_InvalidRangeSignalled ==
    (pc = "done" /\ call.op = "integerLessThan" /\ call.range <= 0)
        => result = NaN

\* C12: one call of the sampler draws at most 100 32-bit integers.
C12_AtMost100Draws ==
    rs # NoFrame => rs.draws <= maxIntegerIter

\* C13: with range = 1 the limit is 2^32, the first draw is accepted and the
\* result is 0 after exactly one draw of four bytes; integer(source, m, m)
\* returns m.
C13_RangeOne ==
    (pc = "done" /\ rs # NoFrame /\ rs.range = 1)
        => /\ Limit(1) = [hi |-> Half, lo |-> 0]
           /\ rs.draws = 1
           /\ calls = 1
           /\ result = Num(IF call.op = "integer" THEN call.min ELSE 0)

\* integer(source, m, m) returned for m > 0 on the largest 32-bit draw
C13_Witness ==
    /\ pc = "done"
    /\ call.op = "integer"
    /\ call.min = call.max
    /\ call.min > 0
    /\ rs.sample = [hi |-> Half - 1, lo |-> Half - 1]

---------------------------------------------------------------------------
(* Claims about the extractors (SpecUint).                                 *)

\* the bytes requested by the extractor that the call op names
Width(op) ==
    CASE op = "uint8" -> 1 [] op = "uint16" -> 2
      [] op = "uint32" -> 4 [] op = "uint64" -> 8

\* the two base-256 digits of a 16-bit limb
LimbDigits(limb) == <<limb \div 256, limb % 256>>

\* the base-256 digits of a returned value, the most significant first
Base256(op, r) ==
    CASE op = "uint8" -> <<r.v>>
      [] op = "uint16" -> LimbDigits(r.v)
      [] op = "uint32" -> LimbDigits(r.v.hi) \o LimbDigits(r.v.lo)
      [] op = "uint64" ->
           LimbDigits(r.v[1]) \o LimbDigits(r.v[2])
               \o LimbDigits(r.v[3]) \o LimbDigits(r.v[4])

\* C14: an extractor of width w makes one source call for w bytes and
\* returns the big-endian value of the w bytes that call returned, a value
\* of w base-256 digits.
C14_BigEndianOfDrawn ==
    (pc = "done" /\ call.op \in UintOps)
        => /\ calls = 1
           /\ ux.w = Width(call.op)
           /\ Len(ux.bytes) = ux.w
           /\ Base256(call.op, result) = ux.bytes
           /\ \A k \in 1..ux.w : Base256(call.op, result)[k] \in 0..255

---------------------------------------------------------------------------
(* Claims about batchedRandomSource (SpecBatched).                         *)

IsPrefix(s, t) == Len(s) <= Len(t) /\ s = SubSeq(t, 1, Len(s))

\* C15: the returned arrays, concatenated, are a prefix of the batches
\* drawn from the base source, concatenated in call order; over the source
\* 0, 1, 2, ... the first uint8 returns 0 and the second returns 1.
C15_OrderPreserved ==
    /\ IsPrefix(Join(bat.rets), bat.drawn)
    /\ (src.cycle = CountingCycle /\ Len(bat.rets) >= 2
            /\ bat.lens[1] = 1 /\ bat.lens[2] = 1)
        => (GetUint8(bat.rets[1]) = 0 /\ GetUint8(bat.rets[2]) = 1)

\* two uint8 draws were served from the counting source, and then a
\* request that spans two refills
C15_Witness ==
    /\ bat.pc = "idle"
    /\ src.cycle = CountingCycle
    /\ bat.batchSize = 3
    /\ bat.lens = <<1, 1, 4>>
    /\ Len(bat.drawn) = 9

\* C16: every request returns an array of exactly len bytes, every one of
\* them written from the buffer.
C16_ExactLength ==
    \A k \in 1..Len(bat.rets) :
        /\ Len(bat.rets[k]) = bat.lens[k]
        /\ bat.filled[k] = bat.lens[k]

\* an empty request, one shorter than what the buffer holds and one longer
\* than a batch have returned
C16_Witness ==
    /\ bat.pc = "idle"
    /\ bat.batchSize = 3
    /\ bat.lens = <<0, 1, 4>>

---------------------------------------------------------------------------
(* Claims about every core function (SpecDet).                             *)

\* C17: the second of two calls with the same arguments, on a source that
\* delivers the same bytes, returns what the first returned and consumes as
\* many bytes.
C17_Deterministic ==
    (pc = "done" /\ first # NoResult)
        => (result = first.result /\ src.pos = first.pos)

\* C18: once the source has failed, the call has ended with the source's
\* error as its outcome, and no step calls the source again.
C18_FailurePropagates ==
    /\ [](src.err.raised
            => (pc = "thrown" /\ result = Thrown(src.err.e)
                /\ uniq = NoFrame /\ pat = NoFrame /\ fmt = NoFrame))
    /\ [][src.err.raised => (calls' = calls /\ src' = src)]_vars

\* the source failed inside uniquePatterns after earlier calls succeeded
C18_Witness ==
    /\ pc = "thrown"
    /\ call.op = "uniquePatterns"
    /\ call.count = 2
    /\ calls >= 2
    /\ result = Thrown("EntropyError")

---------------------------------------------------------------------------
(* Claims about uniquePatterns, continued (SpecUnique).                    *)

\* C19: no step of uniquePatterns changes the caller's exclusion list: it
\* keeps its elements and their order; the patterns are accumulated in a
\* set of their own.
C19_ExclusionListUntouched ==
    [][call'.existingPatterns = call.existingPatterns]_vars

\* uniquePatterns returned two patterns for a call with a list of two
\* exclusions
C19_Witness ==
    /\ pc = "done"
    /\ call.existingPatterns = Given(<<<<"a">>, <<"b", "a">>>>)
    /\ result.t = "array"
    /\ Len(result.v) = 2

---------------------------------------------------------------------------
(* Claims about SingleFlightGroup (SpecFlight).                            *)

\* the run calls made so far
Runs == 1..Len(sf.runs)

\* C20: a run call made while the pool holds an execution for its key
\* joins that execution and does not call the generator, so each execution
\* is one generator call made by one run call; every call that has ended
\* ended with the outcome of its execution, the generator's value for the
\* arguments of the call that started it.
C20_OneInvocationPerFlight ==
    /\ sf.invocations = Cardinality({c \in Runs : sf.runs[c].saw = 0})
    /\ sf.invocations = Len(sf.execs)
    /\ \A c \in Runs :
         /\ sf.runs[c].saw # 0
              => (sf.runs[c].exec = sf.runs[c].saw /\ ~sf.runs[c].leader)
         /\ sf.runs[c].outcome # Pending
              => /\ sf.runs[c].outcome = sf.execs[sf.runs[c].exec].outcome
                 /\ sf.runs[c].outcome \in
                      {Resolved(Gen(sf.execs[sf.runs[c].exec].arg)),
                       Rejected("test error")}
    /\ \A e \in 1..Len(sf.execs) :
         Cardinality({c \in Runs : sf.runs[c].exec = e
                                   /\ sf.runs[c].leader}) = 1

\* three run calls with one key were made while the first was pending, the
\* joining ones with other arguments, and all resolved to the first's value
C20_Witness ==
    /\ Len(sf.runs) = 3
    /\ sf.invocations = 1
    /\ sf.runs[1].arg = 3
    /\ sf.runs[2].arg = 5
    /\ \A c \in Runs : sf.runs[c].outcome = Resolved(9)

\* C21: run calls with different keys are not deduplicated: they never share
\* an execution, a call that finds no entry for its own key invokes the
\* generator whatever the other keys are doing, so calls with pairwise
\* different keys invoke it once each; each call gets the outcome of an
\* execution of its own key (the one that made it, the value of its own
\* arguments); an entry of the pool names a pending execution of that very
\* key, and a step changes the entry of the key of the acting call only.
C21_KeysIndependent ==
    /\ [](/\ \A c \in Runs :
              /\ sf.execs[sf.runs[c].exec].key = sf.runs[c].key
              /\ sf.runs[c].saw = 0 => sf.runs[c].leader
              /\ sf.runs[c].outcome # Pending
                   => sf.runs[c].outcome = sf.execs[sf.runs[c].exec].outcome
              /\ (sf.runs[c].leader /\ sf.runs[c].outcome.state = "resolved")
                   => sf.runs[c].outcome = Resolved(Gen(sf.runs[c].arg))
          /\ \A c, d \in Runs :
               sf.runs[c].key # sf.runs[d].key
                 => sf.runs[c].exec # sf.runs[d].exec
          /\ (\A c, d \in Runs : c # d => sf.runs[c].key # sf.runs[d].key)
               => sf.invocations = Len(sf.runs)
          /\ \A k \in Keys :
               sf.pool[k] # 0 => sf.execs[sf.pool[k]].key = k)
    /\ [][\A k \in Keys :
            sf'.pool[k] # sf.pool[k]
              => \/ /\ Len(sf'.runs) = Len(sf.runs) + 1
                    /\ sf'.runs[Len(sf'.runs)].key = k
                 \/ \E c \in Runs :
                      /\ sf'.runs[c].outcome # sf.runs[c].outcome
                      /\ sf.runs[c].key = k]_vars

\* run(3, ...) and run(5, ...) were in flight together: the second call was
\* made while the first key had its entry, the generator ran twice, and
\* each call resolved to the square of its own argument
C21_Witness ==
    /\ Len(sf.runs) = 2
    /\ sf.runs[1].key = 3 /\ sf.runs[1].arg = 3
    /\ sf.runs[2].key = 5 /\ sf.runs[2].arg = 5
    /\ sf.runs[2].busy = {3}
    /\ sf.invocations = 2
    /\ sf.runs[1].outcome = Resolved(9)
    /\ sf.runs[2].outcome = Resolved(25)
    /\ sf.pool = [k \in Keys |-> 0]

\* C22: when the promise of an execution rejects, every run call sharing
\* it, the one that made it and the ones that joined it, ends rejected with
\* the error of that promise: none of them resolves and none of them ends
\* with another error.
C22_RejectionShared ==
    \A c \in Runs :
        (/\ sf.execs[sf.runs[c].exec].outcome.state = "rejected"
         /\ sf.runs[c].outcome # Pending)
          => /\ sf.runs[c].outcome = sf.execs[sf.runs[c].exec].outcome
             /\ sf.runs[c].outcome = Rejected("test error")

\* one execution was joined by two calls while pending, it rejected, and
\* the initiating call and both joiners rejected with its error
C22_Witness ==
    /\ Len(sf.runs) = 3
    /\ Len(sf.execs) = 1
    /\ sf.runs[1].leader /\ ~sf.runs[2].leader /\ ~sf.runs[3].leader
    /\ sf.execs[1].outcome = Rejected("test error")
    /\ \A c \in Runs : sf.runs[c].outcome = Rejected("test error")

Waits == 1..Len(sf.waits)

\* C23: wait(key) returns at once when the key has no entry; otherwise its
\* promise resolves once the pending execution has completed, whether that
\* execution resolved or rejected; the generator is invoked by run calls
\* only.
C23_WaitResolves ==
    /\ \A w \in Waits :
         /\ sf.waits[w].saw = 0 => sf.waits[w].outcome = Returned
         /\ sf.waits[w].outcome \in {Pending, Returned}
    /\ sf.invocations = Cardinality({c \in Runs : sf.runs[c].leader})

\* C24: the limit is floor(2^32 / range) * range (2^32 - 1 for the ranges 3
\* and 5, 2^32 - 4 for 7 and 32767, 2^32 for 1 and 2); a draw made before
\* the cap is followed by another draw exactly when it is >= the limit, so
\* a call of integerLessThan that returns within the cap has rejected every
\* earlier draw, its last draw s is < the limit, and it returns s mod range.
C24_FirstAcceptableDraw ==
    /\ [](/\ Limit(1) = [hi |-> Half, lo |-> 0]
          /\ Limit(2) = [hi |-> Half, lo |-> 0]
          /\ Limit(3) = [hi |-> Half - 1, lo |-> Half - 1]
          /\ Limit(5) = [hi |-> Half - 1, lo |-> Half - 1]
          /\ Limit(7) = [hi |-> Half - 1, lo |-> Half - 4]
          /\ Limit(32767) = [hi |-> Half - 1, lo |-> Half - 4]
          /\ (pc \in {"rs_return", "done"} /\ rs # NoFrame /\ rs.range # 0
                /\ rs.draws <= maxIntegerIter)
               => U32Less(rs.sample, Limit(rs.range))
          /\ (pc = "done" /\ call.op = "integerLessThan" /\ rs.range # 0
                /\ rs.draws <= maxIntegerIter)
               => result = Num(U32Mod(rs.sample, call.range)))
    /\ [][(pc = "rs_draw" /\ pc' = "rs_draw" /\ rs.range # 0)
            => ~U32Less(rs'.sample, Limit(rs.range))]_vars
    /\ [][(pc = "rs_draw" /\ rs.i < maxIntegerIter /\ rs.range # 0
             /\ ~U32Less(rs'.sample, Limit(rs.range)))
            => pc' = "rs_draw"]_vars

\* integerLessThan(source, 3) rejected 2^32 - 1 twice, accepted the third
\* draw, 2^32 - 255, and returned its remainder 1
C24_Witness ==
    /\ pc = "done"
    /\ call.op = "integerLessThan"
    /\ call.range = 3
    /\ rs.draws = 3
    /\ rs.sample = [hi |-> Half - 1, lo |-> Half - 255]
    /\ result = Num(1)

\* C25: when the loop reaches the cap with every tested draw rejected,
\* integerLessThan stops: the draw made at the cap is the last one, and the
\* call returns that last drawn value mod range, acceptable or not.
C25_FallbackAtCap ==
    /\ [](/\ (rs # NoFrame /\ rs.draws > maxIntegerIter)
               => /\ rs.draws = maxIntegerIter + 1
                  /\ pc \in {"rs_return", "done", "thrown"}
          /\ (pc = "done" /\ call.op = "integerLessThan" /\ rs.range # 0
                /\ rs.draws > maxIntegerIter)
               => result = Num(U32Mod(U32Of(rs.bytes), call.range)))
    /\ [][(pc = "rs_draw" /\ rs.i >= maxIntegerIter)
            => (pc' = "rs_return" /\ rs.draws = maxIntegerIter)]_vars

\* integerLessThan(source, 3): every draw up to the cap was 2^32 - 1, the
\* draw at the cap was the acceptable 1, and 1 was returned
C25_Witness ==
    /\ pc = "done"
    /\ call.op = "integerLessThan"
    /\ call.range = 3
    /\ rs.i >= maxIntegerIter
    /\ rs.bytes = [k \in 1..4 |-> IF k = 4 THEN 1 ELSE 0]
    /\ result = Num(1)

RECURSIVE AllOnesFrom(_, _)
\* the smallest 2^k - 1 with k >= kmin that is >= x
AllOnesFrom(x, kmin) ==
    IF Pow2(kmin) - 1 >= x THEN Pow2(kmin) - 1 ELSE AllOnesFrom(x, kmin + 1)

\* C26 as stated: for every alphabet length L in 1..256 the mask of format
\* is the smallest 2^k - 1 with k >= 0 that is >= L - 1.
C26_MaskSmallestAllOnes ==
    (pc = "done" /\ call.op = "mask")
        => result = Num(AllOnesFrom(call.length - 1, 0))

\* C26 amended: for every alphabet length L in 1..256 the mask of format
\* is the smallest 2^k - 1 with k >= 1 that is >= L - 1: it is 1 for L = 1,
\* never 0; it keeps every index 0..L-1 unchanged under the bitwise and.
C26_MaskSmallestNonZero ==
    (pc = "done" /\ call.op = "mask")
        => /\ result = Num(AllOnesFrom(call.length - 1, 1))
           /\ \A index \in 0..(call.length - 1) :
                BitAnd(index, result.v) = index

\* the mask of a one-character alphabet was computed and is 1
C26_Witness ==
    /\ pc = "done"
    /\ call.op = "mask"
    /\ call.length = 1
    /\ result = Num(1)

\* C27: for a list of n sub-alphabets and size < n, pattern returns what
\* format returns for the joined sub-alphabets and the same size on the
\* same bytes, and consumes the same bytes; it never draws a guaranteed
\* character and never shuffles; every character returned is a member of
\* the joined sub-alphabets.
C27_ShortIsFormat ==
    /\ (pc = "done" /\ first # NoResult)
         => (result = first.result /\ src.pos = first.pos)
    /\ Short
         => /\ pc \notin {"pat_sub", "pat_sub_ret", "pat_rest_ret",
                          "pat_shuffle"}
            /\ pc = "done"
                 => /\ result.t = "string"
                    /\ Len(result.v) = call.len
                    /\ Range(result.v) \subseteq
                           Range(Join(call.patterns.v))

\* pattern(source, 2, ["a", "b", "c"]) returned "cb", from the second and
\* third sub-alphabets only, and so did format(source, "abc", 2)
C27_Witness ==
    /\ pc = "done"
    /\ call = [op |-> "format", alphabet |-> <<"a", "b", "c">>, size |-> 2]
    /\ first.result = StringOf(<<"c", "b">>)
    /\ result = StringOf(<<"c", "b">>)
    /\ src.pos = 4

RECURSIVE CountOf(_, _)
\* how many times ch occurs in the string str
CountOf(str, ch) ==
    IF str = <<>> THEN 0
    ELSE (IF Head(str) = ch THEN 1 ELSE 0) + CountOf(Tail(str), ch)

\* C28: for size >= n the string built before the shuffle has size
\* characters, the k-th of the first n from the k-th sub-alphabet and the
\* others from the joined sub-alphabets; the output of pattern has the same
\* number of occurrences of every character as that string; the shuffle
\* consumes 4 bytes per position of it, and no byte is consumed after it.
C28_ShuffleIsPermutation ==
    /\ []((pc = "top_pat_ret" /\ Guaranteed)
            => /\ Len(pat.buf) = call.len
               /\ \A k \in 1..Len(pat.buf) :
                    IF k <= Len(call.patterns.v)
                      THEN pat.buf[k] \in Range(call.patterns.v[k])
                      ELSE pat.buf[k] \in Range(Join(call.patterns.v))
               /\ Len(pat.result) = Len(pat.buf)
               /\ \A ch \in Range(Join(call.patterns.v)) :
                    CountOf(pat.result, ch) = CountOf(pat.buf, ch))
    /\ [][pc = "pat_shuffle"
            => /\ src'.pos = src.pos + 4 * call.len
               /\ pat'.buf = pat.buf
               /\ pc' = "top_pat_ret"]_vars
    /\ [][pc = "top_pat_ret"
            => (src' = src /\ result' = StringOf(pat.result)
                /\ pc' = "done")]_vars
    /\ [][pc = "done" => src' = src]_vars

\* pattern(source, 3, ["a", "bc"]) built a string that starts with the
\* guaranteed "a", and the shuffle moved that "a" to the end
C28_Witness ==
    /\ pc = "top_pat_ret"
    /\ Guaranteed
    /\ call.len = 3
    /\ Len(call.patterns.v) = 2
    /\ pat.buf[1] = "a"
    /\ pat.result[1] # "a"
    /\ pat.result[3] = "a"
    /\ pat.result # pat.buf

\* C29: the accumulating set keeps insertion order: a step leaves the
\* strings already inserted where they are and adds at most one string,
\* the pattern just generated, at the end, and only if it is new; the list
\* returned is the set in that order.
C29_InsertionOrder ==
    /\ []((pc = "done" /\ call.op = "uniquePatterns")
            => result = ArrayOf(uniq.map))
    /\ [][(uniq # NoFrame /\ uniq' # NoFrame)
            => /\ IsPrefix(uniq.map, uniq'.map)
               /\ Len(uniq'.map) <= Len(uniq.map) + 1
               /\ Len(uniq'.map) = Len(uniq.map) + 1
                    => /\ uniq'.map[Len(uniq'.map)] = pat.result
                       /\ pat.result \notin Range(uniq.map)]_vars

\* uniquePatterns returned ["b", "a"], the order of insertion and not the
\* sorted order, after testing candidates against the exclusion list ["a"]
C29_Witness ==
    /\ pc = "done"
    /\ call.op = "uniquePatterns"
    /\ call.existingPatterns = Given(<<<<"a">>>>)
    /\ result = ArrayOf(<<<<"b">>, <<"a">>>>)

\* C30: on the same byte stream uniquePatterns with the empty exclusion
\* list [] returns the same list and consumes the same bytes as
\* uniquePatterns with the exclusion list omitted.
C30_EmptyListIsOmitted ==
    (pc = "done" /\ first # NoResult)
        => (result = first.result /\ src.pos = first.pos)

\* the characters pattern can draw for the call's spec
AlphabetOf(spec) ==
    IF spec.kind = "string" THEN Range(spec.v) ELSE Range(Join(spec.v))

\* the strings of the call's size over its spec that are not excluded
Admissible ==
    {str \in [1..call.len -> AlphabetOf(call.patterns)] :
        ~(call.existingPatterns.given
          /\ \E x \in DOMAIN call.existingPatterns.v :
               call.existingPatterns.v[x] = str)}

\* C31: when fewer than count distinct strings that are not excluded are
\* representable for (size, spec), uniquePatterns never returns.
C31_TooFewNeverReturns ==
    (call.op = "uniquePatterns" /\ Cardinality(Admissible) < call.count)
        => pc # "done"

RECURSIVE SumOf(_)
\* the sum of a sequence of numbers
SumOf(seq) == IF seq = <<>> THEN 0 ELSE Head(seq) + SumOf(Tail(seq))

\* the batches needed to serve n bytes, the initial fill included
BatchesNeeded(n, batchSize) ==
    IF n = 0 THEN 1 ELSE (n + batchSize - 1) \div batchSize

\* C32: the base source is called with batchSize only, and after the
\* initial fill only when a request still has bytes to be served: between
\* requests the bytes drawn are those of the batches the served bytes
\* needed, so a request that ends at the end of the buffer, or an empty
\* request, draws nothing beyond them.
C32_RefillOnlyMidRequest ==
    (bat.pc = "idle" /\ bat.lens # <<>>)
        => Len(bat.drawn)
             = bat.batchSize * BatchesNeeded(SumOf(bat.lens), bat.batchSize)

\* the call that made execution e has not resumed from its await
LeaderWaiting(e) ==
    \E c \in Runs :
        sf.runs[c].exec = e /\ sf.runs[c].leader /\ sf.runs[c].outcome = Pending

\* C33 as stated: a key has an entry in the pool exactly while an execution
\* of it has not settled, and a run call made once the execution of its key
\* has settled invokes the generator again.
C33_InPoolWhileInFlight ==
    /\ \A k \in Keys :
         sf.pool[k] # 0
           <=> \E e \in 1..Len(sf.execs) :
                 sf.execs[e].key = k /\ sf.execs[e].outcome = Pending
    /\ \A c \in Runs : ~sf.runs[c].late

\* C33 amended: a key has an entry in the pool exactly from the call that
\* initiates an execution until that call resumes after the promise has
\* settled, which removes it; while the execution is pending the entry is
\* there; a run call that finds no entry invokes the generator again, and
\* only a call made between the settlement and the initiating call's
\* resumption joins the settled execution and gets its outcome.
C33_InPoolUntilResumed ==
    /\ [](/\ \A k \in Keys :
              sf.pool[k] # 0
                => (sf.execs[sf.pool[k]].key = k /\ LeaderWaiting(sf.pool[k]))
          /\ \A e \in 1..Len(sf.execs) :
               /\ LeaderWaiting(e) => sf.pool[sf.execs[e].key] = e
               /\ sf.execs[e].outcome = Pending => LeaderWaiting(e)
          /\ \A c \in Runs :
               /\ sf.runs[c].leader <=> sf.runs[c].saw = 0
               /\ sf.runs[c].late
                    => (~sf.runs[c].leader
                        /\ sf.runs[c].outcome
                             \in {Pending, sf.execs[sf.runs[c].exec].outcome}))
    /\ [][\A c \in Runs :
            (sf.runs[c].leader /\ sf.runs[c].outcome = Pending
               /\ sf'.runs[c].outcome # Pending)
              => (sf.execs[sf.runs[c].exec].outcome # Pending
                  /\ sf'.pool[sf.runs[c].key] = 0)]_vars

\* run(3, ...) resolved and its call removed the key; the next run(3, ...)
\* found no entry, invoked the generator again, and a third call joined the
\* second execution after it had settled
C33_Witness ==
    /\ Len(sf.runs) = 3
    /\ \A c \in Runs : sf.runs[c].key = 3
    /\ sf.runs[1].outcome = Resolved(9)
    /\ sf.runs[2].leader /\ sf.runs[2].exec = 2
    /\ sf.runs[2].busy = {}
    /\ sf.runs[3].late /\ sf.runs[3].exec = 2
    /\ sf.runs[3].outcome = sf.execs[2].outcome
    /\ sf.invocations = 2
    /\ sf.pool = [k \in Keys |-> 0]

\* C34: under every interleaving of run and wait calls, the pool entry of
\* a key is the promise its initiating call stored for as long as that call
\* has not resumed, so the call finds its own entry in its finally block and
\* no call ends with "...? This should never happen"; a wait call leaves
\* the pool and the number of generator invocations as they are.
C34_FinallyFindsOwnEntry ==
    /\ [](/\ \A e \in 1..Len(sf.execs) :
              LeaderWaiting(e) => EntryIsOwn(sf.pool, sf.execs[e].key, e)
          /\ \A c \in Runs :
               sf.runs[c].outcome # Rejected("...? This should never happen"))
    /\ [][(\/ Len(sf'.waits) # Len(sf.waits)
           \/ \E w \in Waits : sf'.waits[w] # sf.waits[w])
            => (sf'.pool = sf.pool /\ sf'.invocations = sf.invocations)]_vars

\* a wait call joined the first execution of key 3 and went on after the
\* initiating call had removed the key and a second call had stored a new
\* promise for it; that second call then found its own entry and resolved
C34_Witness ==
    /\ Len(sf.runs) = 2
    /\ Len(sf.waits) = 1
    /\ sf.waits[1].saw = 1
    /\ sf.waits[1].outcome = Returned
    /\ sf.runs[1].key = 3 /\ sf.runs[2].key = 3
    /\ sf.runs[2].leader /\ sf.runs[2].busy = {}
    /\ sf.runs[1].outcome = Resolved(9)
    /\ sf.runs[2].outcome \in {Resolved(9), Resolved(25)}
    /\ Len(sf.execs[1].waiters) = 0
    /\ sf.pool = [k \in Keys |-> 0]

---------------------------------------------------------------------------
(* Claims about Marline (SpecMarline).                                     *)

\* the instances that are started
Started == {i \in Instances : mar.started[i]}

\* the call a step makes
Called == mar'.log[Len(mar'.log)]

\* what a call leaves alone when it changes nothing
SameMarlines ==
    /\ mar'.started = mar.started
    /\ mar'.activeMarline = mar.activeMarline

\* C35: at most one instance is started and activeMarline is that instance,
\* null when none is; start() on an available instance while another one is
\* active throws "Another Marline instance is running." and starts nothing;
\* start() on a started instance and stop() on a non-started one change
\* nothing; start() with no instance active starts the caller, and stop()
\* on the started instance leaves none started, so that another can start.
C35_OneActiveMarline ==
    /\ [](/\ Cardinality(Started) <= 1
          /\ mar.activeMarline = null <=> Started = {}
          /\ mar.activeMarline # null => Started = {mar.activeMarline}
          /\ \A i \in Started : mar.isAvailable[i])
    /\ [][LET i == Called.instance
          IN  /\ Called.op = "start"
                   => IF ~mar.isAvailable[i] \/ mar.started[i]
                        THEN Called.outcome = Returned /\ SameMarlines
                        ELSE IF mar.activeMarline # null
                          THEN /\ Called.outcome = Thrown(
                                      "Another Marline instance is running.")
                               /\ ~mar'.started[i]
                               /\ SameMarlines
                          ELSE /\ Called.outcome = Returned
                               /\ mar'.activeMarline = i
                               /\ mar'.started[i]
              /\ Called.op = "stop"
                   => /\ Called.outcome = Returned
                      /\ IF mar.started[i]
                           THEN mar'.activeMarline = null /\ ~mar'.started[i]
                           ELSE SameMarlines]_vars

\* instance 1 was started, start() on instance 2 threw, instance 1 was
\* stopped and then instance 2 started and became the active one
C35_Witness ==
    /\ Len(mar.log) = 4
    /\ mar.log[1] = [op |-> "start", instance |-> 1, outcome |-> Returned]
    /\ mar.log[2] = [op |-> "start", instance |-> 2, outcome |->
                       Thrown("Another Marline instance is running.")]
    /\ mar.log[3] = [op |-> "stop", instance |-> 1, outcome |-> Returned]
    /\ mar.log[4] = [op |-> "start", instance |-> 2, outcome |-> Returned]
    /\ mar.activeMarline = 2
    /\ Started = {2}

===========================================================================
